---------------------------- MODULE Spec2Model ----------------------------
(***************************************************************************)
(* A model of the media-analytics ETL pipeline (scripts/etl_pipeline.py):  *)
(* extract_data, transform_data, load_data, create_database_schema and     *)
(* run_etl_pipeline, together with the part of the PostgreSQL store that   *)
(* the SQL statements of the script read and write.                        *)
(*                                                                         *)
(* Strings are sequences of one-character strings, so that lower-casing,   *)
(* substring tests and string formatting are computed, not assumed.        *)
(* A cell of a DataFrame is a tagged value: Str(s), Ts(day, sec), NaN, NaT *)
(* or Date(day).                                                           *)
(***************************************************************************)
EXTENDS Integers, Sequences, FiniteSets, TLC

VARIABLES
    files,             \* the input directory: the *.json files in glob order
    raw_data,          \* run_etl_pipeline: the extracted DataFrame
    transformed_data,  \* run_etl_pipeline: the transformed DataFrame
    pc,                \* run_etl_pipeline: the state of the run
    trace,             \* run_etl_pipeline: the steps executed, with outcome
    raised,            \* whether run_etl_pipeline raised to its caller
    error,             \* the cause of the last exception
    table,             \* store: user_interactions is absent, plain, partitioned
    partition,         \* store: user_interactions_2025_03 is in pg_tables
    indexes,           \* store: the four secondary indexes exist
    rows,              \* store: the committed rows of user_interactions
    tx,                \* store: rows inserted by the open load transaction
    open,              \* the connections and cursors that are open
    lpc,               \* load_data: position in the call
    df,                \* load_data: its argument
    records,           \* load_data: df.to_dict('records')
    i,                 \* load_data: the batch loop's index
    inserted,          \* load_data: the inserted counter
    before,            \* the committed rows when the current load_data call began
    results,           \* the outcome of each load_data call that has ended
    calls,             \* number of load_data calls made
    initial,           \* the committed rows in the initial state
    out                \* result of a direct call of extract_data / transform_data

vars == <<files, raw_data, transformed_data, pc, trace, raised, error, table,
          partition, indexes, rows, tx, open, lpc, df, records, i, inserted,
          before, results, calls, initial, out>>

---------------------------------------------------------------------------
(* Strings *)

UpperLetters == <<"A", "B", "C", "D", "E", "F", "G", "H", "I", "J", "K", "L", "M",
                  "N", "O", "P", "Q", "R", "S", "T", "U", "V", "W", "X", "Y", "Z">>

LowerLetters == <<"a", "b", "c", "d", "e", "f", "g", "h", "i", "j", "k", "l", "m",
                  "n", "o", "p", "q", "r", "s", "t", "u", "v", "w", "x", "y", "z">>

DigitChars == <<"0", "1", "2", "3", "4", "5", "6", "7", "8", "9">>

\* str.lower() on one character
LowerChar(c) ==
    IF \E k \in 1..Len(UpperLetters) : UpperLetters[k] = c
    THEN LowerLetters[CHOOSE k \in 1..Len(UpperLetters) : UpperLetters[k] = c]
    ELSE c

\* str.lower()
Lower(s) == [k \in 1..Len(s) |-> LowerChar(s[k])]

\* sub in s
Contains(s, sub) ==
    \E k \in 0..(Len(s) - Len(sub)) : SubSeq(s, k + 1, k + Len(sub)) = sub

IsDigit(c) == \E k \in 1..Len(DigitChars) : DigitChars[k] = c

\* str(n) for a natural number n
RECURSIVE IntToStr(_)
IntToStr(n) ==
    IF n < 10 THEN <<DigitChars[n + 1]>>
    ELSE Append(IntToStr(n \div 10), DigitChars[(n % 10) + 1])

k_google == <<"g", "o", "o", "g", "l", "e">>
k_facebook == <<"f", "a", "c", "e", "b", "o", "o", "k">>
k_twitter == <<"t", "w", "i", "t", "t", "e", "r">>
k_instagram == <<"i", "n", "s", "t", "a", "g", "r", "a", "m">>
k_social == <<"s", "o", "c", "i", "a", "l">>
k_news == <<"n", "e", "w", "s">>
k_nytimes == <<"n", "y", "t", "i", "m", "e", "s">>
k_cnn == <<"c", "n", "n">>
k_email == <<"e", "m", "a", "i", "l">>
k_newsletter == <<"n", "e", "w", "s", "l", "e", "t", "t", "e", "r">>
c_direct == <<"d", "i", "r", "e", "c", "t">>
c_search == <<"s", "e", "a", "r", "c", "h">>
c_social == <<"s", "o", "c", "i", "a", "l">>
c_news == <<"n", "e", "w", "s">>
c_email == <<"e", "m", "a", "i", "l">>
c_other == <<"o", "t", "h", "e", "r">>
s_unknown == <<"u", "n", "k", "n", "o", "w", "n">>
s_nan == <<"n", "a", "n">>
s_nat == <<"n", "a", "t">>
s_none == <<"n", "o", "n", "e">>
p_host == <<"n", "e", "w", "s", ".", "e", "x", "a", "m", "p", "l", "e", ".", "c", "o", "m", "/">>
p_article == <<"a", "r", "t", "i", "c", "l", "e", "-">>

---------------------------------------------------------------------------
(* Cells *)

Str(s) == [t |-> "str", s |-> s]

\* a timestamp string that pd.to_datetime parses: `day` days after
\* 1970-01-01 and `sec` seconds into that day; after the conversion, the
\* datetime itself
Ts(day, sec) == [t |-> "ts", day |-> day, sec |-> sec]

Date(day) == [t |-> "date", day |-> day]

NaN == [t |-> "nan"]

\* a JSON null, kept as None in a column of dtype object
None == [t |-> "none"]

NaT == [t |-> "nat"]

\* pd.isna / Series.isna
isna(v) == v.t \in {"nan", "none", "nat"}

SecondsPerDay == 86400

\* Timestamp.timestamp(), truncated by int()
UnixTimestamp(ts) == ts.day * SecondsPerDay + ts.sec

---------------------------------------------------------------------------
(* DataFrames: a sequence of rows, each a function from the columns *)

Columns(frame) == IF frame = <<>> THEN {} ELSE DOMAIN frame[1]

\* DataFrame.empty: no rows or no columns
Empty(frame) == Len(frame) = 0 \/ Columns(frame) = {}

\* pd.DataFrame(all_data): the columns are the union of the keys, a key a
\* record lacks is NaN in its row
DataFrame(all_data) ==
    LET cols == UNION {DOMAIN all_data[k] : k \in 1..Len(all_data)}
    IN  [k \in 1..Len(all_data) |->
            [c \in cols |-> IF c \in DOMAIN all_data[k] THEN all_data[k][c] ELSE NaN]]

---------------------------------------------------------------------------
(* extract_data *)

\* a line or array element that json.loads rejects
BadJson == [t |-> "badjson"]

\* a line that is blank after strip()
Blank == [t |-> "blank"]

ParseError == [ok |-> FALSE, data |-> <<>>]

\* json.loads(file_content) of a file that starts with '[': the whole text
\* parses or the call raises
ParseArray(content) ==
    IF \E k \in 1..Len(content) : content[k] = BadJson
    THEN ParseError
    ELSE [ok |-> TRUE,
          data |-> SelectSeq(content, LAMBDA e : e # Blank)]

\* a line loop that extends the result line by line: the lines before the
\* one that does not parse stay
RECURSIVE ParseLinesKeepsPrefix(_, _)
ParseLinesKeepsPrefix(content, data_list) ==
    IF content = <<>> THEN [ok |-> TRUE, data |-> data_list]
    ELSE IF Head(content) = Blank THEN ParseLinesKeepsPrefix(Tail(content), data_list)
    ELSE IF Head(content) = BadJson THEN [ok |-> TRUE, data |-> data_list]
    ELSE ParseLinesKeepsPrefix(Tail(content), Append(data_list, Head(content)))

\* the line loop: data_list grows line by line and is lost with the
\* exception of the first line that does not parse
RECURSIVE ParseLines(_, _)
ParseLines(content, data_list) ==
    IF content = <<>> THEN [ok |-> TRUE, data |-> data_list]
    ELSE IF Head(content) = Blank THEN ParseLines(Tail(content), data_list)
    ELSE IF Head(content) = BadJson THEN ParseError
    ELSE ParseLines(Tail(content), Append(data_list, Head(content)))

ParseFile(file) ==
    IF file.format = "array" THEN ParseArray(file.content)
    ELSE ParseLines(file.content, <<>>)

\* the loop over json_files: a file that parses extends all_data, a file
\* that raises is logged and skipped
RECURSIVE ExtractLoop(_, _)
ExtractLoop(json_files, all_data) ==
    IF json_files = <<>> THEN all_data
    ELSE LET parsed == ParseFile(Head(json_files))
         IN  ExtractLoop(Tail(json_files),
                         IF parsed.ok THEN all_data \o parsed.data ELSE all_data)

extract_data(data_dir) ==
    IF data_dir = <<>> THEN <<>>
    ELSE LET all_data == ExtractLoop(data_dir, <<>>)
         IN  IF all_data = <<>> THEN <<>> ELSE DataFrame(all_data)

---------------------------------------------------------------------------
(* transform_data *)

\* re.search(r'news\.example\.com/([^/]+)', url): the leftmost place where
\* the host literal is followed by a character other than '/', and from
\* there the longest run without '/'
extract_category(url) ==
    LET n == Len(p_host)
        starts == {k \in 1..(Len(url) - n) :
                      /\ SubSeq(url, k, k + n - 1) = p_host
                      /\ url[k + n] # "/"}
    IN  IF starts = {} THEN s_unknown
        ELSE LET k == CHOOSE a \in starts : \A b \in starts : a <= b
                 from == k + n
                 to == CHOOSE e \in from..Len(url) :
                          /\ \A j \in from..e : url[j] # "/"
                          /\ (e = Len(url) \/ url[e + 1] = "/")
             IN  SubSeq(url, from, to)

\* re.search(r'article-(\d+)', url)
extract_article_id(url) ==
    LET n == Len(p_article)
        starts == {k \in 1..(Len(url) - n) :
                      /\ SubSeq(url, k, k + n - 1) = p_article
                      /\ IsDigit(url[k + n])}
    IN  IF starts = {} THEN s_unknown
        ELSE LET k == CHOOSE a \in starts : \A b \in starts : a <= b
                 from == k + n
                 to == CHOOSE e \in from..Len(url) :
                          /\ \A j \in from..e : IsDigit(url[j])
                          /\ (e = Len(url) \/ ~IsDigit(url[e + 1]))
             IN  SubSeq(url, from, to)

categorize_referrer(referrer) ==
    IF isna(referrer) \/ referrer.s = <<>> THEN c_direct
    ELSE IF Contains(referrer.s, k_google) THEN c_search
    ELSE IF \/ Contains(referrer.s, k_facebook)
            \/ Contains(referrer.s, k_twitter)
            \/ Contains(referrer.s, k_instagram)
            \/ Contains(referrer.s, k_social) THEN c_social
    ELSE IF \/ Contains(referrer.s, k_news)
            \/ Contains(referrer.s, k_nytimes)
            \/ Contains(referrer.s, k_cnn) THEN c_news
    ELSE IF \/ Contains(referrer.s, k_email)
            \/ Contains(referrer.s, k_newsletter) THEN c_email
    ELSE c_other

\* pd.to_datetime on one cell: a missing value becomes NaT
to_datetime(v) == IF isna(v) THEN NaT ELSE v

\* Series.dt.date on one cell
dt_date(v) == IF v = NaT THEN NaT ELSE Date(v.day)

\* the columns of dtype object after the derived columns are added: every
\* column but the datetime64 column timestamp
ObjectColumns(frame) == Columns(frame) \ {"timestamp"}

\* astype(str).str.lower() on one cell; str() of a date is its ISO form,
\* which has no letters and which the store reads back as the same date
AsLowerStr(v) ==
    IF v.t = "str" THEN Str(Lower(v.s))
    ELSE IF v.t = "nan" THEN Str(s_nan)
    ELSE IF v.t = "none" THEN Str(s_none)
    ELSE IF v.t = "nat" THEN Str(s_nat)
    ELSE v

\* lines 143-150: a column with a non-null value is converted whole, a
\* column that is null throughout is left as it is
LowerObjectColumns(frame) ==
    LET conv == {c \in ObjectColumns(frame) :
                    \E k \in 1..Len(frame) : ~isna(frame[k][c])}
    IN  [k \in 1..Len(frame) |->
            [c \in Columns(frame) |->
                IF c \in conv THEN AsLowerStr(frame[k][c]) ELSE frame[k][c]]]

\* f"{row['user_id']}_{row['session_id']}_{int(row['timestamp'].timestamp())}"
\* (str() of a NaN cell is "nan", of None "None", lower-cased before)
CellText(v) == IF v.t = "str" THEN v.s ELSE IF v.t = "none" THEN s_none ELSE s_nan

SynthesizeId(row) ==
    Str(CellText(row["user_id"]) \o <<"_">> \o CellText(row["session_id"])
        \o <<"_">> \o IntToStr(UnixTimestamp(row["timestamp"])))

Extend(row, col, v) == [c \in DOMAIN row \cup {col} |-> IF c = col THEN v ELSE row[c]]

\* lines 162-164: the exception is logged and raised again
Raise(cause) == [ok |-> FALSE, error |-> cause, df |-> <<>>]

\* lines 103-160.  The columns event_time, event_hour, event_day,
\* event_month, event_year, event_dayofweek and is_weekend are derived from
\* timestamp alone, as event_date is, and the columns action, device_type,
\* time_spent_seconds and scroll_depth pass through: they are left out of
\* the frames.

transform_data(frame) ==
    IF Empty(frame) THEN [ok |-> TRUE, error |-> "none", df |-> frame]
    ELSE IF "timestamp" \notin Columns(frame) THEN Raise("KeyError")
    ELSE IF \E k \in 1..Len(frame) : frame[k]["timestamp"].t = "str"
         THEN Raise("unparseable timestamp")
    ELSE IF "page_url" \notin Columns(frame) THEN Raise("KeyError")
    ELSE IF \E k \in 1..Len(frame) : isna(frame[k]["page_url"])
         THEN Raise("TypeError")
    ELSE IF "referrer" \notin Columns(frame) THEN Raise("KeyError")
    ELSE
      LET stamped == [k \in 1..Len(frame) |->
                        Extend(frame[k], "timestamp", to_datetime(frame[k]["timestamp"]))]
          derived == [k \in 1..Len(frame) |->
                        LET r0 == stamped[k]
                            r1 == Extend(r0, "event_date", dt_date(r0["timestamp"]))
                            r2 == Extend(r1, "content_category",
                                         Str(extract_category(r0["page_url"].s)))
                            r3 == Extend(r2, "article_id",
                                         Str(extract_article_id(r0["page_url"].s)))
                        IN  Extend(r3, "referrer_category",
                                   Str(categorize_referrer(r0["referrer"])))]
          lowered == LowerObjectColumns(derived)
      IN  IF "interaction_id" \in Columns(lowered)
          THEN [ok |-> TRUE, error |-> "none", df |-> lowered]
          ELSE IF {"user_id", "session_id"} \ Columns(lowered) # {}
               THEN Raise("KeyError")
          ELSE IF \E k \in 1..Len(lowered) : lowered[k]["timestamp"] = NaT
               THEN Raise("ValueError")
          ELSE [ok |-> TRUE, error |-> "none",
                df |-> [k \in 1..Len(lowered) |->
                          Extend(lowered[k], "interaction_id", SynthesizeId(lowered[k]))]]

---------------------------------------------------------------------------
(* The store *)

\* FOR VALUES FROM ('2025-03-01') TO ('2025-04-01'), as days after 1970-01-01
PartitionFrom == 20148

PartitionTo == 20179

\* a row is routed to the partition whose range holds its event_date
HasPartitionFor(row, part) ==
    /\ part
    /\ row["event_date"].t = "date"
    /\ PartitionFrom <= row["event_date"].day
    /\ row["event_date"].day < PartitionTo

\* the key of ON CONFLICT (interaction_id, event_date)
Key(row) == <<row["interaction_id"], row["event_date"]>>

\* the unique index on the key, over the rows a transaction sees
UniqueIndex(visible) == {Key(r) : r \in visible}

\* an insert that finds no conflict
ConflictsNever(index, row) == FALSE

\* ON CONFLICT (interaction_id, event_date): the index holds the row's key
Conflicts(index, row) == Key(row) \in index

\* the arbiter of ON CONFLICT (interaction_id, event_date) must be a unique
\* index on exactly these columns: the partitioned table has it (its key
\* includes the partition column), the table of create_database_schema has
\* PRIMARY KEY (interaction_id) alone
HasConflictTarget(tbl) == tbl = "partitioned"

\* INSERT ... ON CONFLICT (interaction_id, event_date) DO NOTHING for one
\* row, against the index over the rows the transaction sees
InsertRow(tbl, part, index, row) ==
    IF tbl = "absent" THEN [ok |-> FALSE, error |-> "undefined_table", count |-> 0]
    ELSE IF ~HasConflictTarget(tbl)
         THEN [ok |-> FALSE, error |-> "no_conflict_target", count |-> 0]
    ELSE IF ~HasPartitionFor(row, part)
         THEN [ok |-> FALSE, error |-> "no_partition_for_row", count |-> 0]
    ELSE IF Conflicts(index, row) THEN [ok |-> TRUE, error |-> "none", count |-> 0]
    ELSE [ok |-> TRUE, error |-> "none", count |-> 1]

\* the statement for one row, after the rows before it
ExecuteOne(tbl, part, st, row) ==
    LET one == InsertRow(tbl, part, st.index, row)
    IN  IF ~one.ok
        THEN [st EXCEPT !.ok = FALSE, !.error = one.error, !.rowcount = 0]
        ELSE IF one.count = 0 THEN st
        ELSE [st EXCEPT !.pending = @ \cup {row},
                        !.index = @ \cup {Key(row)},
                        !.rowcount = @ + 1]

\* rows lo..hi in order (the range is halved to keep the evaluation
\* shallow): the first error ends the call
RECURSIVE ExecuteRange(_, _, _, _, _, _)
ExecuteRange(tbl, part, st, batch_values, lo, hi) ==
    IF ~st.ok \/ lo > hi THEN st
    ELSE IF lo = hi THEN ExecuteOne(tbl, part, st, batch_values[lo])
    ELSE LET mid == (lo + hi) \div 2
         IN  ExecuteRange(tbl, part,
                          ExecuteRange(tbl, part, st, batch_values, lo, mid),
                          batch_values, mid + 1, hi)

\* cursor.executemany(insert_query, batch_values): the statement once per
\* row, in order; rowcount is the total over the rows
executemany(tbl, part, committed, pending, batch_values) ==
    ExecuteRange(tbl, part,
                 [ok |-> TRUE, error |-> "none", pending |-> pending,
                  index |-> UniqueIndex(committed \cup pending), rowcount |-> 0],
                 batch_values, 1, Len(batch_values))

\* conn.commit()
commit(committed, pending) == committed \cup pending

\* a rollback that keeps what the batches before the exception inserted
rollback_keeps_pending(committed, pending) == committed \cup pending

\* conn.rollback()
rollback(committed, pending) == committed

\* the faults of the environment: the server cannot be reached at
\* connect, or the connection drops at a statement or at the commit
Faults == {"none", "connect", "execute", "commit"}

---------------------------------------------------------------------------
(* load_data *)

batch_size == 100

\* lines 232-242: the value handed to the driver; a NaN becomes None
Native(val) == IF val.t = "nan" THEN None ELSE val

Min(a, b) == IF a < b THEN a ELSE b

\* lines 228-243 for records[i : i + batch_size]
BatchValues(recs, start) ==
    [k \in 1..(Min(start + batch_size, Len(recs)) - start) |->
        [c \in DOMAIN recs[1] |-> Native(recs[start + k][c])]]

RunningSteps == {"INIT", "PARTITION_READY", "SCHEMA_READY", "EXTRACTED", "TRANSFORMED"}

\* lines 330 and 374-375: what run_etl_pipeline does with an exception
ExceptClause == [pc |-> "FAILED", raised |-> FALSE]

\* a run that goes on after a step that raised
StepOutcomeContinues(ok, next) == next

\* the run after a step that returned (to `next`) or raised
StepOutcome(ok, next) == IF ok THEN next ELSE ExceptClause.pc

Mark(tr, ok) == [tr EXCEPT ![Len(tr)].ok = ok]

InRun == pc \in RunningSteps

Acquire(handles, owner) == handles \cup {<<owner, "conn">>, <<owner, "cursor">>}

\* cursor.close() and conn.close()
Release(handles, owner) == handles \ {<<owner, "conn">>, <<owner, "cursor">>}

\* load_data leaves, by return or by raise, into run_etl_pipeline (whose
\* trace is tr) or into a direct caller
LoadLeaves(tr, status, cause, n, done) ==
    /\ lpc' = "idle"
    /\ results' = Append(results, [status |-> status, inserted |-> n, batches |-> done])
    /\ error' = cause
    /\ IF InRun
       THEN /\ pc' = StepOutcome(status # "raised", "LOADED")
            /\ raised' = IF status = "raised" THEN ExceptClause.raised ELSE raised
            /\ trace' = Mark(tr, status # "raised")
       ELSE UNCHANGED <<pc, raised, trace>>

\* lines 197-222: the empty frame returns at once; connect_to_db raises
\* before conn is bound, so that the handlers find nothing to undo
LoadBegin(frame, fault) ==
    /\ lpc = "idle"
    /\ df' = frame
    /\ calls' = calls + 1
    /\ before' = rows
    /\ LET tr == Append(trace, [step |-> "load", ok |-> TRUE])
       IN  IF Empty(frame)
           THEN /\ LoadLeaves(tr, "noop", error, 0, 0)
                /\ UNCHANGED <<open, records, i, inserted>>
           ELSE IF fault = "connect"
           THEN /\ LoadLeaves(tr, "raised", "connect", 0, 0)
                /\ UNCHANGED <<open, records, i, inserted>>
           ELSE /\ lpc' = "loop"
                /\ open' = Acquire(open, "load")
                /\ records' = frame
                /\ i' = 0
                /\ inserted' = 0
                /\ trace' = IF InRun THEN tr ELSE trace
                /\ UNCHANGED <<pc, raised, error, results>>
    /\ UNCHANGED <<files, raw_data, transformed_data, table, partition, indexes,
                   rows, tx, initial, out>>

\* lines 253-262: the handler rolls back, the finally clause closes
LoadRaises(cause) ==
    /\ rows' = rollback(rows, tx)
    /\ tx' = {}
    /\ open' = Release(open, "load")
    /\ LoadLeaves(trace, "raised", cause, inserted, i \div batch_size)
    /\ UNCHANGED <<i, inserted>>

\* lines 224-247: one turn of the batch loop
LoadBatch(fault) ==
    /\ lpc = "loop"
    /\ LET done == executemany(table, partition, rows, tx, BatchValues(records, i))
       IN  IF fault = "execute" THEN LoadRaises("execute")
           ELSE IF ~done.ok THEN LoadRaises(done.error)
           ELSE /\ tx' = done.pending
                /\ inserted' = inserted + done.rowcount
                /\ i' = i + batch_size
                /\ lpc' = IF i + batch_size < Len(records) THEN "loop" ELSE "commit"
                /\ UNCHANGED <<rows, open, results, error, pc, raised, trace>>
    /\ UNCHANGED <<files, raw_data, transformed_data, table, partition, indexes,
                   df, records, before, calls, initial, out>>

\* lines 249-251, then the finally clause
LoadCommit(fault) ==
    /\ lpc = "commit"
    /\ IF fault = "commit" THEN LoadRaises("commit")
       ELSE /\ rows' = commit(rows, tx)
            /\ tx' = {}
            /\ open' = Release(open, "load")
            /\ LoadLeaves(trace, "returned", error, inserted, i \div batch_size)
            /\ UNCHANGED <<i, inserted>>
    /\ UNCHANGED <<files, raw_data, transformed_data, table, partition, indexes,
                   df, records, before, calls, initial, out>>

---------------------------------------------------------------------------
(* create_database_schema *)

\* CREATE TABLE IF NOT EXISTS user_interactions (... interaction_id
\* VARCHAR(255) PRIMARY KEY ...): an existing table is left as it is
CreateTableIfNotExists(tbl) == IF tbl = "absent" THEN "plain" ELSE tbl

\* lines 269-318.  connect_to_db raising leaves conn unbound, and the
\* finally clause's `if conn` raises in its turn; DDL is transactional, so
\* a call that does not commit changes nothing
create_database_schema(tbl, idx, fault) ==
    IF fault = "connect"
    THEN [ok |-> FALSE, error |-> "UnboundLocalError", table |-> tbl, indexes |-> idx]
    ELSE IF fault \in {"execute", "commit"}
    THEN [ok |-> FALSE, error |-> fault, table |-> tbl, indexes |-> idx]
    ELSE [ok |-> TRUE, error |-> "none",
          table |-> CreateTableIfNotExists(tbl), indexes |-> TRUE]

---------------------------------------------------------------------------
(* run_etl_pipeline *)

\* a step of the run ends: the trace gets the step, the run moves on
StepEnds(step, ok, cause, next) ==
    /\ trace' = Append(trace, [step |-> step, ok |-> ok])
    /\ pc' = StepOutcome(ok, next)
    /\ raised' = IF ok THEN raised ELSE ExceptClause.raised
    /\ error' = IF ok THEN error ELSE cause

\* CREATE TABLE IF NOT EXISTS user_interactions_2025_03 PARTITION OF
\* user_interactions: the parent must exist and be partitioned
PartitionOf(tbl) ==
    IF tbl = "absent" THEN [ok |-> FALSE, error |-> "undefined_table"]
    ELSE IF tbl = "plain" THEN [ok |-> FALSE, error |-> "not_partitioned"]
    ELSE [ok |-> TRUE, error |-> "none"]

\* lines 330-356: the connection of the partition check is closed on the
\* path without an exception only
RunPartitionStep(fault) ==
    /\ pc = "INIT"
    /\ IF fault = "connect"
       THEN /\ StepEnds("partition", FALSE, "connect", "PARTITION_READY")
            /\ UNCHANGED <<open, partition>>
       ELSE IF fault = "execute"
       THEN /\ StepEnds("partition", FALSE, "execute", "PARTITION_READY")
            /\ open' = Acquire(open, "run")
            /\ UNCHANGED partition
       ELSE IF partition
       THEN /\ StepEnds("partition", TRUE, "none", "PARTITION_READY")
            /\ open' = Release(Acquire(open, "run"), "run")
            /\ UNCHANGED partition
       ELSE IF ~PartitionOf(table).ok
       THEN /\ StepEnds("partition", FALSE, PartitionOf(table).error, "PARTITION_READY")
            /\ open' = Acquire(open, "run")
            /\ UNCHANGED partition
       ELSE IF fault = "commit"
       THEN /\ StepEnds("partition", FALSE, "commit", "PARTITION_READY")
            /\ open' = Acquire(open, "run")
            /\ UNCHANGED partition
       ELSE /\ StepEnds("partition", TRUE, "none", "PARTITION_READY")
            /\ open' = Release(Acquire(open, "run"), "run")
            /\ partition' = TRUE
    /\ UNCHANGED <<files, raw_data, transformed_data, table, indexes, rows, tx,
                   lpc, df, records, i, inserted, before, results, calls, initial, out>>

\* line 359
RunSchemaStep(fault) ==
    /\ pc = "PARTITION_READY"
    /\ LET r == create_database_schema(table, indexes, fault)
       IN  /\ StepEnds("schema", r.ok, r.error, "SCHEMA_READY")
           /\ table' = r.table
           /\ indexes' = r.indexes
           /\ open' = IF fault = "connect" THEN open
                      ELSE Release(Acquire(open, "schema"), "schema")
    /\ UNCHANGED <<files, raw_data, transformed_data, partition, rows, tx,
                   lpc, df, records, i, inserted, before, results, calls, initial, out>>

\* a run without the branch on raw_data.empty
AfterExtractAlways(frame) == "EXTRACTED"

\* lines 363-372: the branch on raw_data.empty
AfterExtract(frame) == IF ~Empty(frame) THEN "EXTRACTED" ELSE "DONE_EMPTY"

\* line 362
RunExtractStep ==
    /\ pc = "SCHEMA_READY"
    /\ raw_data' = extract_data(files)
    /\ StepEnds("extract", TRUE, "none", AfterExtract(extract_data(files)))
    /\ UNCHANGED <<files, transformed_data, table, partition, indexes, rows, tx, open,
                   lpc, df, records, i, inserted, before, results, calls, initial, out>>

\* line 365
RunTransformStep ==
    /\ pc = "EXTRACTED"
    /\ LET r == transform_data(raw_data)
       IN  /\ transformed_data' = r.df
           /\ StepEnds("transform", r.ok, r.error, "TRANSFORMED")
    /\ UNCHANGED <<files, raw_data, table, partition, indexes, rows, tx, open,
                   lpc, df, records, i, inserted, before, results, calls, initial, out>>

\* line 368
RunLoadStep ==
    /\ pc = "TRANSFORMED"
    /\ \E fault \in {"none", "connect"} : LoadBegin(transformed_data, fault)


---------------------------------------------------------------------------
(* Inputs *)

r_google == <<"g", "o", "o", "g", "l", "e", ".", "c", "o", "m">>
r_Google == <<"G", "o", "o", "g", "l", "e", ".", "c", "o", "m">>
r_facebook == <<"f", "a", "c", "e", "b", "o", "o", "k", ".", "c", "o", "m">>
r_CNN == <<"C", "N", "N", ".", "c", "o", "m">>
r_Email == <<"E", "m", "a", "i", "l", ".", "i", "o">>
r_biz == <<"r", "a", "n", "d", "o", "m", ".", "b", "i", "z">>
r_gnews == <<"n", "e", "w", "s", ".", "g", "o", "o", "g", "l", "e", ".", "c", "o", "m">>
url_sports == <<"h", "t", "t", "p", "s", ":", "/", "/", "n", "e", "w", "s", ".", "e", "x", "a", "m", "p", "l", "e", ".", "c", "o", "m", "/", "s", "p", "o", "r", "t", "s", "/", "a", "r", "t", "i", "c", "l", "e", "-", "4", "2">>
u_1 == <<"u", "1">>
u_1up == <<"U", "1">>
ss_1 == <<"s", "1">>
id_a == <<"a", "7">>
id_A == <<"A", "7">>
s_old == <<"o", "l", "d">>

MaxRunFiles == 2
MaxRunLines == 2
MaxFiles == 2
MaxLines == 3
MaxRows == 2
MaxBatches == 2
MaxCalls == 2

SeqsUpTo(S, n) == UNION {[1..k -> S] : k \in 0..n}

\* a raw interaction record as the generator writes it, without and with
\* the optional keys
Raw(user, ts) ==
    [user_id |-> Str(user), session_id |-> Str(ss_1), timestamp |-> ts,
     page_url |-> Str(url_sports)]

March == Raw(u_1, Ts(PartitionFrom, 0)) @@ [referrer |-> Str(r_Google)]

April == Raw(u_1, Ts(PartitionTo, 0)) @@ [referrer |-> Str(r_facebook)]

BadStamp == Raw(u_1, Str(<<"x">>)) @@ [referrer |-> Str(<<>>)]

Formats == {"array", "lines"}

\* the files of k entries; a blank line is a line of a line file only
FilesOfLen(entries, k) ==
    {file \in [format : Formats, content : [1..k -> entries]] :
        file.format = "array" => \A j \in 1..k : file.content[j] # Blank}

\* the directories of at most nfiles files with at most nlines entries in all
RECURSIVE DirsWithin(_, _, _)
DirsWithin(entries, nfiles, nlines) ==
    IF nfiles = 0 THEN {<<>>}
    ELSE {<<>>} \cup
         UNION {{<<f>> \o d : f \in FilesOfLen(entries, k),
                              d \in DirsWithin(entries, nfiles - 1, nlines - k)} :
                k \in 0..nlines}

\* the directories of a run
RunDirs == DirsWithin({March, April, BadStamp, BadJson}, MaxRunFiles, MaxRunLines)

\* the directories of a direct call of extract_data
ExtractDirs == DirsWithin({March, April, BadJson, Blank}, MaxFiles, MaxLines)

\* the row an earlier run has loaded from the record March
KnownRow ==
    LET r == transform_data(DataFrame(<<March>>)).df[1]
    IN  [c \in DOMAIN r |-> Native(r[c])]

\* the stores a run can find: nothing; the table create_database_schema
\* makes; the partitioned table without and with the partition of March
\* 2025, empty or with a row
RunStores ==
    {[table |-> "absent", partition |-> FALSE, indexes |-> FALSE, rows |-> {}],
     [table |-> "plain", partition |-> FALSE, indexes |-> TRUE, rows |-> {}],
     [table |-> "partitioned", partition |-> FALSE, indexes |-> TRUE, rows |-> {}],
     [table |-> "partitioned", partition |-> TRUE, indexes |-> TRUE, rows |-> {}],
     [table |-> "partitioned", partition |-> TRUE, indexes |-> TRUE, rows |-> {KnownRow}]}

\* the raw records of a direct call of transform_data
Referrers == {None, Str(<<>>), Str(r_google), Str(r_Google), Str(r_facebook), Str(r_CNN),
              Str(r_Email), Str(r_biz), Str(r_gnews)}

TransformRecords ==
    LET base == {Raw(u, ts) : u \in {u_1, u_1up},
                              ts \in {Ts(PartitionFrom, 0), Ts(PartitionFrom, 1), Str(<<"x">>)}}
        refd == base \cup {r @@ [referrer |-> ref] : r \in base, ref \in Referrers}
    IN  refd \cup {r @@ [interaction_id |-> Str(id)] : r \in refd, id \in {id_a, id_A}}

TransformFrames == {DataFrame(s) : s \in SeqsUpTo(TransformRecords, MaxRows)}

\* the enriched frames of a direct call of load_data: n rows, the key of
\* row k is (k - 1) % m, the last row's date is lastDay
LoadFrame(n, m, lastDay) ==
    [k \in 1..n |->
        [interaction_id |-> Str(IntToStr((k - 1) % m)),
         event_date |-> Date(IF k = n THEN lastDay ELSE PartitionFrom),
         article_id |-> Str(IntToStr(k))]]

LoadFrames ==
    {LoadFrame(b * batch_size + r, m, d) :
        b \in 0..MaxBatches, r \in {0, 1},
        m \in {1, batch_size + 1, (MaxBatches + 1) * batch_size},
        d \in {PartitionFrom, PartitionTo}}

OldRow ==
    [interaction_id |-> Str(IntToStr(0)), event_date |-> Date(PartitionFrom),
     article_id |-> Str(s_old)]

LoadStores ==
    {[table |-> "absent", partition |-> FALSE, indexes |-> FALSE, rows |-> {}],
     [table |-> "plain", partition |-> FALSE, indexes |-> TRUE, rows |-> {}],
     [table |-> "partitioned", partition |-> FALSE, indexes |-> TRUE, rows |-> {}],
     [table |-> "partitioned", partition |-> TRUE, indexes |-> TRUE, rows |-> {}],
     [table |-> "partitioned", partition |-> TRUE, indexes |-> TRUE, rows |-> {OldRow}]}

---------------------------------------------------------------------------
(* Specifications *)

InitWith(position, dir, raw, frame, store) ==
    /\ files = dir
    /\ raw_data = raw
    /\ transformed_data = <<>>
    /\ pc = position
    /\ trace = <<>>
    /\ raised = FALSE
    /\ error = "none"
    /\ table = store.table
    /\ partition = store.partition
    /\ indexes = store.indexes
    /\ rows = store.rows
    /\ tx = {}
    /\ open = {}
    /\ lpc = "idle"
    /\ df = frame
    /\ records = <<>>
    /\ i = 0
    /\ inserted = 0
    /\ before = store.rows
    /\ results = <<>>
    /\ calls = 0
    /\ initial = store.rows
    /\ out = [ok |-> FALSE, error |-> "pending", df |-> <<>>]

\* run_etl_pipeline(data_dir), once
Init == \E dir \in RunDirs, store \in RunStores : InitWith("INIT", dir, <<>>, <<>>, store)

Next ==
    \/ \E fault \in Faults : RunPartitionStep(fault)
    \/ \E fault \in Faults : RunSchemaStep(fault)
    \/ RunExtractStep
    \/ RunTransformStep
    \/ RunLoadStep
    \/ \E fault \in {"none", "execute"} : LoadBatch(fault)
    \/ \E fault \in {"none", "commit"} : LoadCommit(fault)

Spec == Init /\ [][Next]_vars

\* load_data(df), called MaxCalls times in succession with the same frame
CallLoad ==
    /\ pc = "caller"
    /\ calls < MaxCalls
    /\ \E fault \in {"none", "connect"} : LoadBegin(df, fault)

LoadInit ==
    \E frame \in LoadFrames, store \in LoadStores : InitWith("caller", <<>>, <<>>, frame, store)

LoadNext ==
    \/ CallLoad
    \/ \E fault \in {"none", "execute"} : LoadBatch(fault)
    \/ \E fault \in {"none", "commit"} : LoadCommit(fault)

LoadSpec == LoadInit /\ [][LoadNext]_vars

\* extract_data(data_dir), called directly
CallExtract ==
    /\ pc = "extract"
    /\ pc' = "extracted"
    /\ raw_data' = extract_data(files)
    /\ UNCHANGED <<files, transformed_data, trace, raised, error, table, partition,
                   indexes, rows, tx, open, lpc, df, records, i, inserted, before,
                   results, calls, initial, out>>

ExtractInit ==
    \E dir \in ExtractDirs :
        InitWith("extract", dir, <<>>, <<>>, [table |-> "absent", partition |-> FALSE,
                                        indexes |-> FALSE, rows |-> {}])

ExtractSpec == ExtractInit /\ [][CallExtract]_vars

\* transform_data(df), called directly
CallTransform ==
    /\ pc = "transform"
    /\ pc' = "transformed"
    /\ out' = transform_data(raw_data)
    /\ UNCHANGED <<files, raw_data, transformed_data, trace, raised, error, table,
                   partition, indexes, rows, tx, open, lpc, df, records, i, inserted,
                   before, results, calls, initial>>

TransformInit ==
    \E frame \in TransformFrames :
        InitWith("transform", <<>>, frame, <<>>, [table |-> "absent", partition |-> FALSE,
                                            indexes |-> FALSE, rows |-> {}])

TransformSpec == TransformInit /\ [][CallTransform]_vars


---------------------------------------------------------------------------
(* Properties *)

Terminal == pc \in {"LOADED", "FAILED", "DONE_EMPTY"}

Steps(tr) == {tr[k].step : k \in 1..Len(tr)}

Ended == lpc = "idle" /\ Len(results) > 0

Last == results[Len(results)]

\* C1: a load_data call that raises, at whichever batch or at the commit,
\* leaves the committed rows of the store exactly as they were when the call
\* began, and nothing of its transaction pending.
C1_AllOrNothing ==
    (Ended /\ Last.status = "raised") => (rows = before /\ tx = {})

\* a call that raised in a later batch, after a batch that inserted rows
C1_Witness ==
    /\ Ended
    /\ Last.status = "raised"
    /\ Last.batches >= 1
    /\ Last.inserted >= batch_size
    /\ rows = before

\* C2: a load_data call that follows a call with the same frame that
\* returned leaves the committed rows as that call left them; if it returns
\* it reports zero inserted rows, and if it raises the cause is a fault of
\* the connection, never the conflict.
C2_Idempotent ==
    (Ended /\ Len(results) >= 2 /\ results[Len(results) - 1].status \in {"returned", "noop"})
        => /\ rows = before
           /\ Last.status \in {"returned", "noop"} => Last.inserted = 0
           /\ Last.status = "raised" => error \in {"connect", "execute", "commit"}

\* a second call that returned, after a first call that inserted rows of
\* more than one batch
C2_Witness ==
    /\ Ended
    /\ Len(results) = 2
    /\ results[1].status = "returned"
    /\ results[1].inserted > batch_size
    /\ results[2].status = "returned"
    /\ results[2].inserted = 0
    /\ rows = before

\* C3: a step of run_etl_pipeline that raises is the last step of the run
\* and leaves the run FAILED; no step is executed twice; the run never
\* raises to its caller.
C3_FaultContained ==
    /\ raised = FALSE
    /\ \A k \in 1..Len(trace) : ~trace[k].ok => (k = Len(trace) /\ pc = "FAILED")
    /\ pc = "FAILED" => (Len(trace) > 0 /\ ~trace[Len(trace)].ok /\ lpc = "idle")
    /\ \A j, k \in 1..Len(trace) : j # k => trace[j].step # trace[k].step

\* a run that transform_data failed: no load follows
C3_Witness ==
    /\ pc = "FAILED"
    /\ trace[Len(trace)] = [step |-> "transform", ok |-> FALSE]
    /\ error = "unparseable timestamp"
    /\ calls = 0

\* C4: the rows of a frame that transform_data returns for a non-empty
\* input have pairwise different interaction_id.
C4_UniqueIds ==
    (pc = "transformed" /\ out.ok /\ ~Empty(raw_data))
        => \A j, k \in 1..Len(out.df) :
               j # k => out.df[j]["interaction_id"] # out.df[k]["interaction_id"]

\* C5: when run_etl_pipeline has ended, no connection and no cursor opened
\* during the run is open.
C5_HandlesClosed == Terminal => open = {}

\* C6: when the first executemany of a run is about to be made, the
\* partition exists and its range holds the event_date of every record that
\* is loaded.
C6_PartitionCoversLoad ==
    (InRun /\ lpc = "loop" /\ i = 0)
        => /\ partition
           /\ \A k \in 1..Len(records) :
                 /\ PartitionFrom <= records[k]["event_date"].day
                 /\ records[k]["event_date"].day < PartitionTo

\* C7: the partition check and create_database_schema fail for no cause but
\* a fault of the connection, whatever the store held at the start, and
\* after them the table and the partition exist.
C7_SchemaStepIdempotent ==
    /\ (pc = "FAILED" /\ trace[Len(trace)].step \in {"partition", "schema"})
          => error \in {"connect", "execute", "commit", "UnboundLocalError"}
    /\ pc \in {"SCHEMA_READY", "EXTRACTED", "TRANSFORMED", "LOADED", "DONE_EMPTY"}
          => (table # "absent" /\ partition)

\* C8: a run whose extraction is empty ends in the state of a run with no
\* data, not FAILED: neither transform_data nor load_data is called and the
\* committed rows are those of the start.
C8_EmptyExtraction ==
    ("extract" \in Steps(trace) /\ Empty(raw_data))
        => /\ pc = "DONE_EMPTY"
           /\ Steps(trace) \cap {"transform", "load"} = {}
           /\ calls = 0
           /\ rows = initial

\* a run over a directory whose files all fail to parse
C8_Witness ==
    /\ pc = "DONE_EMPTY"
    /\ Len(files) > 0
    /\ \A f \in 1..Len(files) : \E k \in 1..Len(files[f].content) : files[f].content[k] = BadJson
    /\ rows = initial

ParsesCompletely(file) == \A k \in 1..Len(file.content) : file.content[k] # BadJson

\* the records of the files that parse completely, in the order of the
\* files and of the lines
RECURSIVE ExpectedRecords(_)
ExpectedRecords(dir) ==
    IF dir = <<>> THEN <<>>
    ELSE (IF ParsesCompletely(Head(dir))
          THEN SelectSeq(Head(dir).content, LAMBDA e : e # Blank)
          ELSE <<>>) \o ExpectedRecords(Tail(dir))

\* C9: the frame extract_data returns holds, row for row, the records of
\* the files that parse completely, in file order then line order; a file
\* with a line that does not parse contributes nothing.
C9_ExtractAllOrNothingPerFile ==
    pc = "extracted"
        => LET expected == ExpectedRecords(files)
           IN  /\ Len(raw_data) = Len(expected)
               /\ \A k \in 1..Len(raw_data) :
                     \A c \in DOMAIN expected[k] : raw_data[k][c] = expected[k][c]

\* a directory with a line file whose second line fails after a first line
\* that parsed, and another file that parses
C9_Witness ==
    /\ pc = "extracted"
    /\ Len(files) = 2
    /\ files[1].format = "lines"
    /\ Len(files[1].content) = 2
    /\ files[1].content[1] # BadJson
    /\ files[1].content[2] = BadJson
    /\ ParsesCompletely(files[2])
    /\ raw_data # <<>>
    /\ Len(raw_data) = Len(files[2].content)

LowerForm(v) == IF isna(v) THEN v ELSE Str(Lower(v.s))

\* C10: the referrer_category of every row transform_data returns is the
\* category of the lower-cased form of the row's referrer.
C10_CategoryOfLowerCased ==
    (pc = "transformed" /\ out.ok /\ ~Empty(raw_data))
        => \A k \in 1..Len(out.df) :
               out.df[k]["referrer_category"]
                   = Str(categorize_referrer(LowerForm(raw_data[k]["referrer"])))


=============================================================================
